---- MODULE Spec2Model ----
(***************************************************************************)
(* Model of debuggerd/libdebuggerd/tombstone.cpp:                          *)
(*   engrave_tombstone_ucontext  (in-process entry, lines 54-122)          *)
(*   engrave_tombstone           (shared back end,   lines 124-151)        *)
(* The external collaborators (iterate_tids, AndroidLocalUnwinder,         *)
(* engrave_tombstone_proto, SerializeToFileDescriptor, dup/close,          *)
(* tombstone_proto_to_text, _LOG) are modelled at their call boundary:     *)
(* their outcomes are inputs chosen when the call is made.                 *)
(***************************************************************************)
EXTENDS Integers, Sequences, FiniteSets

\* ------------------------------------------------------------- bounds
MaxTid == 3       \* thread ids are 1..MaxTid
MaxListing == 2   \* distinct tids reported by one iterate_tids call
MaxLines == 2     \* lines produced by one tombstone_proto_to_text call

Tids == 1..MaxTid
NoFd == -1
Uids == {10}
Signals == {11}
FdSpace == 0..7

VARIABLES
  entry,          \* which entry point the caller used
  pid,            \* getpid()
  target_tid,     \* gettid() / target_thread
  env,            \* what the best-effort reads of the crash context yield
  tombstone_fd,   \* caller's text descriptor (ucontext entry)
  proto_fd,       \* caller's proto descriptor (ucontext entry)
  pc,             \* position in the code
  threads,        \* std::map<pid_t, ThreadInfo>, as its in-order entry list
  listed,         \* the tids iterate_tids has reported so far
  enumResult,     \* "pending" | "ok" | "failed"  (iterate_tids' return)
  unwinder,       \* "none" | "ok" | "failed"     (unwinder.Initialize)
  output_fd_u,    \* unique_fd output_fd of engrave_tombstone
  proto_fd_u,     \* unique_fd proto_fd of engrave_tombstone
  openFds,        \* descriptors open in the process
  builderCalls,   \* number of engrave_tombstone_proto calls
  builderArg,     \* what the builder was handed
  serializeAttempts, \* number of SerializeToFileDescriptor calls
  serializeResult,   \* "pending" | "skipped" | "ok" | "failed"
  protoWriteFd,   \* descriptor SerializeToFileDescriptor wrote through
  rendered,       \* lines tombstone_proto_to_text has produced, in order
  renderDone,     \* tombstone_proto_to_text has returned
  textSink,       \* the _LOG calls made, in order
  errlog          \* async_safe_format_log diagnostics, in order

vars == <<entry, pid, target_tid, env, tombstone_fd, proto_fd, pc, threads,
          listed, enumResult, unwinder, output_fd_u, proto_fd_u, openFds,
          builderCalls, builderArg, serializeAttempts, serializeResult,
          protoWriteFd, rendered, renderDone, textSink, errlog>>

\* ------------------------------------------------------ ThreadInfo, map
\* A value-initialised ThreadInfo, which is what std::map::operator[]
\* inserts for a missing key (line 86) and what the designated initialisers
\* of lines 76-85 and 91-99 leave in the members they do not name.
DefaultThreadInfo ==
  [registers |-> "null", uid |-> 0, tid |-> 0, thread_name |-> <<>>,
   pid |-> 0, command_line |-> <<>>, selinux_label |-> "",
   siginfo |-> "null", signo |-> 0,
   tagged_addr_ctrl |-> -1, pac_enabled_keys |-> -1]

Keys(m) == {m[i].key : i \in 1..Len(m)}

MapHas(m, k) == k \in Keys(m)

\* threads.at(k)
MapGet(m, k) == LET i == CHOOSE j \in 1..Len(m) : m[j].key = k IN m[i].val

\* Faulty variant of MapInsert: the new entry is appended, in insertion order.
MapInsert_Appends(m, k, v) == Append(m, [key |-> k, val |-> v])

\* Insertion of an absent key: std::map keeps its entries in key order.
MapInsert(m, k, v) ==
  LET n == Cardinality({i \in 1..Len(m) : m[i].key < k})
  IN SubSeq(m, 1, n) \o <<[key |-> k, val |-> v]>> \o SubSeq(m, n + 1, Len(m))

\* threads[k] as an lvalue: a missing key is inserted value-initialised.
MapIndex(m, k) == IF MapHas(m, k) THEN m ELSE MapInsert(m, k, DefaultThreadInfo)

\* threads[k] = v
MapAssign(m, k, v) ==
  LET m2 == MapIndex(m, k)
  IN [i \in 1..Len(m2) |-> IF m2[i].key = k THEN [key |-> k, val |-> v] ELSE m2[i]]

\* ------------------------------------------------- crash-context capture
\* get_thread_name(tid): the thread's name, or empty when the read fails.
get_thread_name(tid) == IF env.nameOk THEN <<tid>> ELSE <<>>

\* The ThreadInfo of lines 76-85.
CrashingThreadInfo ==
  [registers |-> "ucontext", uid |-> env.uid, tid |-> target_tid,
   thread_name |-> get_thread_name(target_tid), pid |-> pid,
   command_line |-> env.command_line, selinux_label |-> env.selinux_label,
   siginfo |-> "siginfo", signo |-> env.signo,
   tagged_addr_ctrl |-> env.tagged_addr_ctrl,
   pac_enabled_keys |-> env.pac_enabled_keys]

\* The lambda of lines 87-100; `thread` is the reference bound on line 86,
\* which stays bound to the entry under key pid.
Callback(m, tid) ==
  IF target_tid = tid
    THEN m
    ELSE LET thread == MapGet(m, pid)
         IN MapAssign(m, tid,
              [DefaultThreadInfo EXCEPT
                 !.uid = thread.uid,
                 !.tid = tid,
                 !.pid = thread.pid,
                 !.command_line = thread.command_line,
                 !.thread_name = get_thread_name(tid),
                 !.tagged_addr_ctrl = thread.tagged_addr_ctrl,
                 !.pac_enabled_keys = thread.pac_enabled_keys])

\* ------------------------------------------------------------ descriptors
LowestFree(open) == CHOOSE f \in FdSpace \ open : \A g \in FdSpace \ open : f <= g

\* dup(fd): EBADF for a descriptor that is not open, else the lowest free
\* number, or -1 when the process is out of descriptors.
Dup(fd, open) == IF fd \in open THEN {LowestFree(open), NoFd} ELSE {NoFd}

\* Faulty variant of CloseFd: the descriptor is released without being closed.
CloseFd_Leaks(fd, open) == open

\* ~unique_fd
CloseFd(fd, open) == open \ {fd}

\* Faulty variant of LogCallback: the two log types are exchanged.
LogCallback_Swapped(line, should_log) ==
  [type |-> IF should_log THEN "LOGS" ELSE "HEADER",
   line |-> line,
   current_tid |-> target_tid, crashed_tid |-> target_tid,
   tfd |-> output_fd_u]

\* The callback of lines 148-150: one _LOG call per rendered line.
LogCallback(line, should_log) ==
  [type |-> IF should_log THEN "HEADER" ELSE "LOGS",
   line |-> line,
   current_tid |-> target_tid, crashed_tid |-> target_tid,
   tfd |-> output_fd_u]

\* --------------------------------------------------------------- inputs
\* What getuid, get_thread_name, get_command_line, ReadFileToString and the
\* two prctl calls of an aarch64 build yield; a failed read yields nothing.
Envs ==
  [uid : Uids, nameOk : BOOLEAN, command_line : {<<>>, <<"app">>},
   selinux_label : {"", "u:r:app:s0"}, signo : Signals,
   tagged_addr_ctrl : {1}, pac_enabled_keys : {3}]

\* Well-formed maps a caller of engrave_tombstone passes in: the crashing
\* thread alone, or with one sibling.
Sibling(t) ==
  [DefaultThreadInfo EXCEPT !.uid = CrashingThreadInfo.uid, !.tid = t,
     !.pid = pid, !.command_line = CrashingThreadInfo.command_line,
     !.thread_name = get_thread_name(t)]

NoBuilderArg == [threads |-> <<>>, target |-> 0]

InitCommon ==
  /\ pid \in Tids
  /\ target_tid \in Tids
  /\ listed = {}
  /\ enumResult = "pending"
  /\ unwinder = "none"
  /\ builderCalls = 0
  /\ builderArg = NoBuilderArg
  /\ serializeAttempts = 0
  /\ serializeResult = "pending"
  /\ protoWriteFd = NoFd
  /\ rendered = <<>>
  /\ renderDone = FALSE
  /\ textSink = <<>>
  /\ errlog = <<>>

\* engrave_tombstone_ucontext(tombstone_fd, proto_fd, ...) is entered.
InitUcontext ==
  /\ entry = "ucontext"
  /\ env \in Envs
  /\ tombstone_fd = 3
  /\ proto_fd \in {NoFd, 4}
  /\ openFds = {tombstone_fd, proto_fd} \ {NoFd}
  /\ output_fd_u = NoFd
  /\ proto_fd_u = NoFd
  /\ threads = <<>>
  /\ pc = "capture"

\* engrave_tombstone(output_fd, proto_fd, unwinder, threads, ...) is entered
\* by an out-of-process caller that owns an initialised unwinder.
InitDirect ==
  /\ entry = "direct"
  /\ env = [uid |-> 10, nameOk |-> TRUE, command_line |-> <<"app">>,
            selinux_label |-> "u:r:app:s0", signo |-> 11,
            tagged_addr_ctrl |-> -1, pac_enabled_keys |-> -1]
  /\ pid = target_tid
  /\ tombstone_fd = NoFd
  /\ proto_fd = NoFd
  /\ output_fd_u = 3
  /\ proto_fd_u \in {NoFd, 4}
  /\ openFds = {output_fd_u, proto_fd_u} \ {NoFd}
  /\ threads \in {MapAssign(<<>>, target_tid, CrashingThreadInfo)}
         \cup {MapAssign(MapAssign(<<>>, target_tid, CrashingThreadInfo), t, Sibling(t)) :
                 t \in Tids \ {target_tid}}
  /\ pc = "build"

Init == InitCommon /\ (InitUcontext \/ InitDirect)

\* ------------------------------------------------ engrave_tombstone_ucontext
\* Lines 56-85: capture the crashing thread and store it under target_tid.
Capture ==
  /\ pc = "capture"
  /\ threads' = MapAssign(threads, target_tid, CrashingThreadInfo)
  /\ pc' = "bind"
  /\ UNCHANGED <<entry, pid, target_tid, env, tombstone_fd, proto_fd, listed,
                 enumResult, unwinder, output_fd_u, proto_fd_u, openFds,
                 builderCalls, builderArg, serializeAttempts, serializeResult,
                 protoWriteFd, rendered, renderDone, textSink, errlog>>

\* Line 86: const ThreadInfo& thread = threads[pid];
BindThread ==
  /\ pc = "bind"
  /\ threads' = MapIndex(threads, pid)
  /\ pc' = "iterate"
  /\ UNCHANGED <<entry, pid, target_tid, env, tombstone_fd, proto_fd, listed,
                 enumResult, unwinder, output_fd_u, proto_fd_u, openFds,
                 builderCalls, builderArg, serializeAttempts, serializeResult,
                 protoWriteFd, rendered, renderDone, textSink, errlog>>

\* iterate_tids fails only by failing to open the task directory, that is
\* before it has reported any tid.
EnumerationCanFail == listed = {}

\* Lines 87-100: iterate_tids reports one more tid to the lambda.
IterateTid ==
  /\ pc = "iterate"
  /\ \E tid \in Tids :
       /\ Cardinality(listed \cup {tid}) <= MaxListing
       /\ threads' = Callback(threads, tid)
       /\ listed' = listed \cup {tid}
  /\ UNCHANGED <<entry, pid, target_tid, env, tombstone_fd, proto_fd, pc,
                 enumResult, unwinder, output_fd_u, proto_fd_u, openFds,
                 builderCalls, builderArg, serializeAttempts, serializeResult,
                 protoWriteFd, rendered, renderDone, textSink, errlog>>

\* Line 87/100: iterate_tids returns true.
IterateDone ==
  /\ pc = "iterate"
  /\ enumResult' = "ok"
  /\ pc' = "unwinder"
  /\ UNCHANGED <<entry, pid, target_tid, env, tombstone_fd, proto_fd, threads,
                 listed, unwinder, output_fd_u, proto_fd_u, openFds,
                 builderCalls, builderArg, serializeAttempts, serializeResult,
                 protoWriteFd, rendered, renderDone, textSink, errlog>>

\* Faulty variant of IterateFail: the enumeration failure ends the call.
IterateFail_Fatal ==
  /\ pc = "iterate"
  /\ listed = {}
  /\ enumResult' = "failed"
  /\ errlog' = Append(errlog, "failed to open /proc/pid/task")
  /\ pc' = "returned"
  /\ UNCHANGED <<entry, pid, target_tid, env, tombstone_fd, proto_fd, threads,
                 listed, unwinder, output_fd_u, proto_fd_u, openFds,
                 builderCalls, builderArg, serializeAttempts, serializeResult,
                 protoWriteFd, rendered, renderDone, textSink>>

\* Lines 87, 100-103: iterate_tids returns false; logged, not fatal.
IterateFail ==
  /\ pc = "iterate"
  /\ EnumerationCanFail
  /\ enumResult' = "failed"
  /\ errlog' = Append(errlog, "failed to open /proc/pid/task")
  /\ pc' = "unwinder"
  /\ UNCHANGED <<entry, pid, target_tid, env, tombstone_fd, proto_fd, threads,
                 listed, unwinder, output_fd_u, proto_fd_u, openFds,
                 builderCalls, builderArg, serializeAttempts, serializeResult,
                 protoWriteFd, rendered, renderDone, textSink>>

\* Faulty variant of UnwinderInitFail: the failure is logged but the return is missing.
UnwinderInitFail_NoReturn ==
  /\ pc = "unwinder"
  /\ unwinder' = "failed"
  /\ errlog' = Append(errlog, "failed to init unwinder object")
  /\ pc' = "dup"
  /\ UNCHANGED <<entry, pid, target_tid, env, tombstone_fd, proto_fd, threads,
                 listed, enumResult, output_fd_u, proto_fd_u, openFds,
                 builderCalls, builderArg, serializeAttempts, serializeResult,
                 protoWriteFd, rendered, renderDone, textSink>>

\* Lines 109-116, Initialize fails: log and return.
UnwinderInitFail ==
  /\ pc = "unwinder"
  /\ unwinder' = "failed"
  /\ errlog' = Append(errlog, "failed to init unwinder object")
  /\ pc' = "returned"
  /\ UNCHANGED <<entry, pid, target_tid, env, tombstone_fd, proto_fd, threads,
                 listed, enumResult, output_fd_u, proto_fd_u, openFds,
                 builderCalls, builderArg, serializeAttempts, serializeResult,
                 protoWriteFd, rendered, renderDone, textSink>>

\* Lines 109-112, Initialize succeeds.
UnwinderInitOk ==
  /\ pc = "unwinder"
  /\ unwinder' = "ok"
  /\ pc' = "dup"
  /\ UNCHANGED <<entry, pid, target_tid, env, tombstone_fd, proto_fd, threads,
                 listed, enumResult, output_fd_u, proto_fd_u, openFds,
                 builderCalls, builderArg, serializeAttempts, serializeResult,
                 protoWriteFd, rendered, renderDone, textSink, errlog>>

\* Line 120: unique_fd(dup(tombstone_fd)), unique_fd(dup(proto_fd)); the
\* order in which the two arguments are evaluated is unspecified.
DupArgs ==
  /\ pc = "dup"
  /\ \/ \E o \in Dup(tombstone_fd, openFds) :
          \E p \in Dup(proto_fd, openFds \cup ({o} \ {NoFd})) :
             /\ output_fd_u' = o
             /\ proto_fd_u' = p
             /\ openFds' = openFds \cup ({o, p} \ {NoFd})
     \/ \E p \in Dup(proto_fd, openFds) :
          \E o \in Dup(tombstone_fd, openFds \cup ({p} \ {NoFd})) :
             /\ output_fd_u' = o
             /\ proto_fd_u' = p
             /\ openFds' = openFds \cup ({o, p} \ {NoFd})
  /\ pc' = "build"
  /\ UNCHANGED <<entry, pid, target_tid, env, tombstone_fd, proto_fd, threads,
                 listed, enumResult, unwinder, builderCalls, builderArg,
                 serializeAttempts, serializeResult, protoWriteFd, rendered,
                 renderDone, textSink, errlog>>

\* ----------------------------------------------------------- engrave_tombstone
\* Lines 131-133: engrave_tombstone_proto(&tombstone, unwinder, threads,
\* target_thread, ...).
Build ==
  /\ pc = "build"
  /\ builderCalls' = builderCalls + 1
  /\ builderArg' = [threads |-> threads, target |-> target_tid]
  /\ pc' = "serialize"
  /\ UNCHANGED <<entry, pid, target_tid, env, tombstone_fd, proto_fd, threads,
                 listed, enumResult, unwinder, output_fd_u, proto_fd_u, openFds,
                 serializeAttempts, serializeResult, protoWriteFd, rendered,
                 renderDone, textSink, errlog>>

\* Faulty variant of SerializeSkip: the sentinel is not tested, the write is attempted.
SerializeSkip_Unguarded ==
  /\ pc = "serialize"
  /\ proto_fd_u = NoFd
  /\ serializeAttempts' = serializeAttempts + 1
  /\ protoWriteFd' = proto_fd_u
  /\ serializeResult' = "failed"
  /\ errlog' = Append(errlog, "failed to write proto tombstone")
  /\ pc' = "render"
  /\ UNCHANGED <<entry, pid, target_tid, env, tombstone_fd, proto_fd, threads,
                 listed, enumResult, unwinder, output_fd_u, proto_fd_u, openFds,
                 builderCalls, builderArg, rendered, renderDone, textSink>>

\* Line 135, proto_fd == -1: nothing to serialize to.
SerializeSkip ==
  /\ pc = "serialize"
  /\ proto_fd_u = NoFd
  /\ serializeResult' = "skipped"
  /\ pc' = "render"
  /\ UNCHANGED <<entry, pid, target_tid, env, tombstone_fd, proto_fd, threads,
                 listed, enumResult, unwinder, output_fd_u, proto_fd_u, openFds,
                 builderCalls, builderArg, serializeAttempts, protoWriteFd,
                 rendered, renderDone, textSink, errlog>>

\* Lines 135-136, SerializeToFileDescriptor returns true.
SerializeOk ==
  /\ pc = "serialize"
  /\ proto_fd_u # NoFd
  /\ serializeAttempts' = serializeAttempts + 1
  /\ protoWriteFd' = proto_fd_u
  /\ serializeResult' = "ok"
  /\ pc' = "render"
  /\ UNCHANGED <<entry, pid, target_tid, env, tombstone_fd, proto_fd, threads,
                 listed, enumResult, unwinder, output_fd_u, proto_fd_u, openFds,
                 builderCalls, builderArg, rendered, renderDone, textSink,
                 errlog>>

\* Faulty variant of SerializeFail: the write failure is logged and ends the call.
SerializeFail_Fatal ==
  /\ pc = "serialize"
  /\ proto_fd_u # NoFd
  /\ serializeAttempts' = serializeAttempts + 1
  /\ protoWriteFd' = proto_fd_u
  /\ serializeResult' = "failed"
  /\ errlog' = Append(errlog, "failed to write proto tombstone")
  /\ pc' = "close"
  /\ UNCHANGED <<entry, pid, target_tid, env, tombstone_fd, proto_fd, threads,
                 listed, enumResult, unwinder, output_fd_u, proto_fd_u, openFds,
                 builderCalls, builderArg, rendered, renderDone, textSink>>

\* Lines 135-139, SerializeToFileDescriptor returns false: logged.
SerializeFail ==
  /\ pc = "serialize"
  /\ proto_fd_u # NoFd
  /\ serializeAttempts' = serializeAttempts + 1
  /\ protoWriteFd' = proto_fd_u
  /\ serializeResult' = "failed"
  /\ errlog' = Append(errlog, "failed to write proto tombstone")
  /\ pc' = "render"
  /\ UNCHANGED <<entry, pid, target_tid, env, tombstone_fd, proto_fd, threads,
                 listed, enumResult, unwinder, output_fd_u, proto_fd_u, openFds,
                 builderCalls, builderArg, rendered, renderDone, textSink>>

\* Lines 148-150: tombstone_proto_to_text produces its next line and calls
\* the callback with it.
RenderLine ==
  /\ pc = "render"
  /\ Len(rendered) < MaxLines
  /\ \E should_log \in BOOLEAN :
       LET line == Len(rendered) + 1
       IN /\ rendered' = Append(rendered, [line |-> line, should_log |-> should_log])
          /\ textSink' = Append(textSink, LogCallback(line, should_log))
  /\ UNCHANGED <<entry, pid, target_tid, env, tombstone_fd, proto_fd, pc,
                 threads, listed, enumResult, unwinder, output_fd_u, proto_fd_u,
                 openFds, builderCalls, builderArg, serializeAttempts,
                 serializeResult, protoWriteFd, renderDone, errlog>>

\* Line 150: tombstone_proto_to_text returns.
RenderEnd ==
  /\ pc = "render"
  /\ renderDone' = TRUE
  /\ pc' = "close"
  /\ UNCHANGED <<entry, pid, target_tid, env, tombstone_fd, proto_fd, threads,
                 listed, enumResult, unwinder, output_fd_u, proto_fd_u, openFds,
                 builderCalls, builderArg, serializeAttempts, serializeResult,
                 protoWriteFd, rendered, textSink, errlog>>

\* Line 151: the unique_fd parameters are destroyed; each closes the
\* descriptor it owns.
Return ==
  /\ pc = "close"
  /\ openFds' = CloseFd(proto_fd_u, CloseFd(output_fd_u, openFds))
  /\ pc' = "returned"
  /\ UNCHANGED <<entry, pid, target_tid, env, tombstone_fd, proto_fd, threads,
                 listed, enumResult, unwinder, output_fd_u, proto_fd_u,
                 builderCalls, builderArg, serializeAttempts, serializeResult,
                 protoWriteFd, rendered, renderDone, textSink, errlog>>

Next ==
  \/ Capture
  \/ BindThread
  \/ IterateTid
  \/ IterateDone
  \/ IterateFail
  \/ UnwinderInitFail
  \/ UnwinderInitOk
  \/ DupArgs
  \/ Build
  \/ SerializeSkip
  \/ SerializeOk
  \/ SerializeFail
  \/ RenderLine
  \/ RenderEnd
  \/ Return

Spec == Init /\ [][Next]_vars

\* The call runs synchronously on one thread: a step that can be taken is taken.
FairSpec == Spec /\ WF_vars(Next)

\* ================================================================ claims
Logged(msg) == \E i \in 1..Len(errlog) : errlog[i] = msg

Ascending(m) == \A i \in 1..Len(m) - 1 : m[i].key < m[i + 1].key

CallerDescriptors == {tombstone_fd, proto_fd} \ {NoFd}

\* Every enumeration of the finite set S as a sequence without repetition.
RECURSIVE Orders(_)
Orders(S) ==
  IF S = {} THEN {<<>>}
  ELSE UNION {{<<x>> \o l : l \in Orders(S \ {x})} : x \in S}

\* The mapping after iterate_tids has reported the tids of l in that order.
RECURSIVE FoldTids(_, _)
FoldTids(m, l) == IF l = <<>> THEN m ELSE FoldTids(Callback(m, Head(l)), Tail(l))

\* The mapping as it stands when iterate_tids is called.
MappingBeforeEnumeration ==
  MapIndex(MapAssign(<<>>, target_tid, CrashingThreadInfo), pid)

\* C1: if unwinder initialization fails, engrave_tombstone_ucontext has
\* returned, the init-failure diagnostic is the last thing logged, the builder
\* was never invoked, nothing was written to the proto sink and no line was
\* emitted to the text sink, whatever thread enumeration did before.
C1_InitFailureNoOutput ==
  unwinder = "failed" =>
    /\ pc = "returned"
    /\ errlog # <<>>
    /\ errlog[Len(errlog)] = "failed to init unwinder object"
    /\ builderCalls = 0
    /\ builderArg = NoBuilderArg
    /\ serializeAttempts = 0
    /\ serializeResult = "pending"
    /\ protoWriteFd = NoFd
    /\ rendered = <<>>
    /\ textSink = <<>>
    /\ output_fd_u = NoFd
    /\ proto_fd_u = NoFd

C1_Witness ==
  /\ unwinder = "failed"
  /\ enumResult = "failed"
  /\ proto_fd # NoFd
  /\ pc = "returned"

\* C2: if thread enumeration fails, the mapping handed to the builder by
\* engrave_tombstone_ucontext holds exactly one entry, the crashing thread's,
\* also when the crashing thread is not the main thread.
C2_EnumFailureSingleThread ==
  (entry = "ucontext" /\ enumResult = "failed" /\ builderCalls = 1) =>
    /\ Len(builderArg.threads) = 1
    /\ builderArg.threads[1].key = target_tid

\* C3: every sibling ThreadInfo synthesized during enumeration has the uid,
\* pid, command line and both hardware flags of the crashing thread's
\* ThreadInfo, for every crashing thread and every enumeration order.
C3_SiblingsInheritFromCrashingThread ==
  entry = "ucontext" =>
    \A t \in listed \ {target_tid} :
      /\ MapHas(threads, t)
      /\ MapHas(threads, target_tid)
      /\ LET s == MapGet(threads, t)
             c == MapGet(threads, target_tid)
         IN /\ s.uid = c.uid
            /\ s.pid = c.pid
            /\ s.command_line = c.command_line
            /\ s.tagged_addr_ctrl = c.tagged_addr_ctrl
            /\ s.pac_enabled_keys = c.pac_enabled_keys

\* C4: a failed write of the binary report is logged and is not fatal: the
\* call goes on to text rendering, the call does not return before rendering
\* has completed, and every rendered line is delivered to the text sink.
C4_WriteFailureNotFatal ==
  serializeResult = "failed" =>
    /\ Logged("failed to write proto tombstone")
    /\ pc \in {"render", "close", "returned"}
    /\ (pc \in {"close", "returned"} => renderDone)
    /\ Len(textSink) = Len(rendered)
    /\ \A i \in 1..Len(rendered) : textSink[i].line = rendered[i].line

C4_Witness ==
  /\ serializeResult = "failed"
  /\ pc = "returned"
  /\ renderDone
  /\ Len(textSink) >= 2

\* No binary sink was provided by the caller of the entry point in use.
SinkAbsent == IF entry = "direct" THEN proto_fd_u = NoFd ELSE proto_fd = NoFd

SkippedEntirely ==
  /\ serializeAttempts = 0
  /\ protoWriteFd = NoFd
  /\ serializeResult \in {"pending", "skipped"}
  /\ ~Logged("failed to write proto tombstone")
  /\ (pc = "returned" /\ unwinder # "failed") =>
        (serializeResult = "skipped" /\ renderDone)

\* C5 as stated: with the sentinel -1 as proto_fd serialization is skipped
\* entirely and text rendering still proceeds; conversely, when the caller
\* provided a valid binary sink, exactly one serialization has been attempted
\* by the time the call returns.
C5_AsStated ==
  /\ SinkAbsent => SkippedEntirely
  /\ (~SinkAbsent /\ pc = "returned") => serializeAttempts = 1

\* C5 amended: with the sentinel -1 as proto_fd serialization is skipped
\* entirely and text rendering still proceeds; conversely, when
\* engrave_tombstone itself holds a valid proto descriptor, exactly one
\* serialization is attempted (through engrave_tombstone_ucontext that needs
\* unwinder initialization and dup(proto_fd) to have succeeded).
C5_SentinelSkipsSerialization ==
  /\ SinkAbsent => SkippedEntirely
  /\ (proto_fd_u # NoFd /\ pc \in {"render", "close", "returned"}) =>
        (serializeAttempts = 1 /\ protoWriteFd = proto_fd_u)
  /\ (proto_fd_u = NoFd) => serializeAttempts = 0

C5_Witness ==
  /\ entry = "ucontext"
  /\ proto_fd = NoFd
  /\ pc = "returned"
  /\ serializeResult = "skipped"
  /\ Len(textSink) >= 1

\* C6: from the end of crash-context capture until the mapping is handed to
\* the builder, the mapping has unique keys, each entry's tid equals its key,
\* and exactly one entry has a siginfo: that of the crashing thread, which is
\* the target passed to the builder.
WellFormedMapping(m, target) ==
  /\ Ascending(m)
  /\ \A i \in 1..Len(m) : m[i].val.tid = m[i].key
  /\ \A i \in 1..Len(m) : (m[i].val.siginfo # "null") <=> (m[i].key = target)
  /\ MapHas(m, target)

C6_MappingWellFormed ==
  entry = "ucontext" =>
    /\ pc \in {"bind", "iterate", "unwinder", "dup", "build"} =>
          WellFormedMapping(threads, target_tid)
    /\ builderCalls = 1 =>
          WellFormedMapping(builderArg.threads, builderArg.target)

\* C7: whatever soft failures occur (enumeration fails, name / command line /
\* label reads yield nothing, the proto write fails), unless unwinder
\* initialization fails the call eventually returns having invoked the builder
\* exactly once and having run text rendering to completion.
C7_OnlyUnwinderInitStops ==
  <>(\/ unwinder = "failed"
     \/ /\ pc = "returned"
        /\ builderCalls = 1
        /\ renderDone
        /\ Len(textSink) = Len(rendered))

C7_Witness ==
  /\ entry = "ucontext"
  /\ pc = "returned"
  /\ builderCalls = 1
  /\ renderDone
  /\ enumResult = "failed"
  /\ ~env.nameOk
  /\ env.command_line = <<>>
  /\ env.selinux_label = ""
  /\ serializeResult = "failed"

\* C8: for a fixed crash context and a fixed set of live tids, the mapping
\* handed to the builder is the one every order of reporting those tids
\* produces, with or without the crashing tid in the listing, and its entries
\* are in ascending tid order.
C8_MappingIndependentOfOrder ==
  (entry = "ucontext" /\ pc = "serialize") =>
    /\ Ascending(builderArg.threads)
    /\ \A S \in {listed \ {target_tid}, listed \cup {target_tid}} :
         \A l \in Orders(S) :
           FoldTids(MappingBeforeEnumeration, l) = builderArg.threads

C8_Witness ==
  /\ entry = "ucontext"
  /\ pc = "serialize"
  /\ target_tid # pid
  /\ Cardinality(listed \ {target_tid}) >= 2
  /\ Len(builderArg.threads) = 3

\* C9: every line the text renderer produces is forwarded to the text sink
\* exactly once, in the order rendered, only after the serialization step has
\* finished; a line flagged true goes out as HEADER and a line flagged false as
\* LOGS, with current and crashed tid both the target thread.
C9_LinesForwardedInOrder ==
  /\ Len(textSink) = Len(rendered)
  /\ \A i \in 1..Len(rendered) :
       /\ textSink[i].line = rendered[i].line
       /\ rendered[i].should_log => textSink[i].type = "HEADER"
       /\ ~rendered[i].should_log => textSink[i].type = "LOGS"
       /\ textSink[i].current_tid = builderArg.target
       /\ textSink[i].crashed_tid = builderArg.target
  /\ \A i, j \in 1..Len(textSink) : i < j => textSink[i].line < textSink[j].line
  /\ textSink # <<>> =>
       (builderCalls = 1 /\ serializeResult \in {"skipped", "ok", "failed"})

C9_Witness ==
  /\ pc = "returned"
  /\ Len(textSink) >= 2
  /\ textSink[1].type = "HEADER"
  /\ textSink[2].type = "LOGS"

\* C10: engrave_tombstone_ucontext never closes the caller's tombstone_fd or
\* proto_fd, writes only through duplicates it created, and has closed every
\* duplicate when it returns, so the open descriptors are those of before.
C10_DescriptorsPreserved ==
  entry = "ucontext" =>
    /\ CallerDescriptors \subseteq openFds
    /\ protoWriteFd \notin CallerDescriptors
    /\ \A i \in 1..Len(textSink) : textSink[i].tfd \notin CallerDescriptors
    /\ pc = "returned" => openFds = CallerDescriptors

C10_Witness ==
  /\ entry = "ucontext"
  /\ pc = "returned"
  /\ output_fd_u # NoFd
  /\ proto_fd_u # NoFd
  /\ protoWriteFd = proto_fd_u
  /\ textSink # <<>>

====
